---- MODULE Spec2Model ----
(***************************************************************************)
(* keepc (src/src/main.rs): a command-snippet manager.  Every invocation   *)
(* is a process that loads the store from commands.json, runs one handler  *)
(* and, when the handler mutates the store, writes the whole store back.   *)
(* A process takes one step per system call that touches the file and one  *)
(* per wait (a line of standard input, the end of a child process).        *)
(*                                                                         *)
(* Text is a sequence of one-character strings, e.g. <<"l","s">> is "ls".  *)
(* A store (HashMap<String,String>) is a function from command text to     *)
(* description; its iteration order is unspecified, so every place the     *)
(* code iterates the map draws an arbitrary permutation of its keys.       *)
(***************************************************************************)
EXTENDS Integers, Sequences, FiniteSets, TLC

\* Largest number of invocations of a behaviour in which invocations may
\* overlap.
MaxInvocations == 2

----------------------------------------------------------------------------
(* Text primitives of the standard library, as the code uses them.         *)

\* char::to_lowercase on the alphabet of the model.
ToLowerChar(c) ==
    CASE c = "A" -> "a"
      [] c = "B" -> "b"
      [] c = "C" -> "c"
      [] OTHER -> c

\* str::to_lowercase
to_lowercase(s) == [i \in 1..Len(s) |-> ToLowerChar(s[i])]

\* char::is_whitespace on the alphabet of the model.
IsWhitespace(c) == c \in {" ", "\n", "\t", "\r"}

\* str::split_whitespace: the maximal runs of non-whitespace, left to right.
RECURSIVE SplitFrom(_, _, _, _)
SplitFrom(s, i, cur, acc) ==
    IF i > Len(s)
    THEN IF cur = <<>> THEN acc ELSE Append(acc, cur)
    ELSE IF IsWhitespace(s[i])
         THEN SplitFrom(s, i + 1, <<>>, IF cur = <<>> THEN acc ELSE Append(acc, cur))
         ELSE SplitFrom(s, i + 1, Append(cur, s[i]), acc)

split_whitespace(s) == SplitFrom(s, 1, <<>>, <<>>)

\* str::find: the least 1-based position at which needle starts in hay, 0 if none.
RECURSIVE FindFrom(_, _, _)
FindFrom(hay, needle, i) ==
    IF i + Len(needle) - 1 > Len(hay) THEN 0
    ELSE IF SubSeq(hay, i, i + Len(needle) - 1) = needle THEN i
    ELSE FindFrom(hay, needle, i + 1)

\* str::contains
contains(hay, needle) == FindFrom(hay, needle, 1) # 0

\* str::trim_start / trim_end / trim
RECURSIVE trim_start(_)
trim_start(s) ==
    IF s # <<>> /\ IsWhitespace(Head(s)) THEN trim_start(Tail(s)) ELSE s

RECURSIVE trim_end(_)
trim_end(s) ==
    IF s # <<>> /\ IsWhitespace(s[Len(s)])
    THEN trim_end(SubSeq(s, 1, Len(s) - 1)) ELSE s

trim(s) == trim_end(trim_start(s))

\* str::lines: split at "\n", a trailing "\r" of a line dropped, no final
\* empty line.
StripCr(l) ==
    IF l # <<>> /\ l[Len(l)] = "\r" THEN SubSeq(l, 1, Len(l) - 1) ELSE l

RECURSIVE LinesFrom(_, _, _, _)
LinesFrom(s, i, cur, acc) ==
    IF i > Len(s)
    THEN IF cur = <<>> THEN acc ELSE Append(acc, cur)
    ELSE IF s[i] = "\n"
         THEN LinesFrom(s, i + 1, <<>>, Append(acc, StripCr(cur)))
         ELSE LinesFrom(s, i + 1, Append(cur, s[i]), acc)

lines(s) == LinesFrom(s, 1, <<>>, <<>>)

\* The delimiter of the bulk-edit file.
Delim == <<":", ":", ":">>

\* str::split_once(":::"): <<>> for None, <<before, after>> for Some.
split_once(l) ==
    LET p == FindFrom(l, Delim, 1)
    IN  IF p = 0 THEN <<>>
        ELSE << SubSeq(l, 1, p - 1), SubSeq(l, p + Len(Delim), Len(l)) >>

\* Value of a decimal digit, -1 for any other character.
DigitVal(c) ==
    CASE c = "0" -> 0 [] c = "1" -> 1 [] c = "2" -> 2 [] c = "3" -> 3
      [] c = "4" -> 4 [] c = "5" -> 5 [] c = "6" -> 6 [] c = "7" -> 7
      [] c = "8" -> 8 [] c = "9" -> 9 [] OTHER -> -1

\* str::parse::<usize>: an optional "+", then one or more digits; anything
\* else (the empty text, a sign alone, "-", a letter) is Err, written -1.
RECURSIVE DigitsValue(_, _)
DigitsValue(s, acc) ==
    IF s = <<>> THEN acc
    ELSE IF DigitVal(Head(s)) < 0 THEN -1
    ELSE DigitsValue(Tail(s), acc * 10 + DigitVal(Head(s)))

parse_usize(s) ==
    LET d == IF s # <<>> /\ Head(s) = "+" THEN Tail(s) ELSE s
    IN  IF d = <<>> THEN -1 ELSE DigitsValue(d, 0)

\* [String]::join(" ")
RECURSIVE join(_)
join(words) ==
    IF words = <<>> THEN <<>>
    ELSE IF Len(words) = 1 THEN words[1]
    ELSE words[1] \o <<" ">> \o join(Tail(words))

----------------------------------------------------------------------------
(* CommandStore and its persisted form.                                    *)

\* CommandStore::new: the empty mapping.
new == [k \in {} |-> <<>>]

\* insert keeping the value of a key that is already present.
InsertIfAbsent(store, k, v) ==
    [x \in (DOMAIN store) \cup {k} |-> IF x \in DOMAIN store THEN store[x] ELSE v]

\* HashMap::insert: adds the key or overwrites its value.
insert(store, k, v) ==
    [x \in (DOMAIN store) \cup {k} |-> IF x = k THEN v ELSE store[x]]

\* HashMap::remove; the keys left keep the order they were iterated in.
remove(store, k) == [x \in (DOMAIN store) \ {k} |-> store[x]]

\* The orders in which a HashMap may hand out its keys: every permutation.
IterOrders(store) ==
    LET n == Cardinality(DOMAIN store)
    IN  {o \in [1..n -> DOMAIN store] : \A i, j \in 1..n : o[i] = o[j] => i = j}

\* Characters of the JSON text.
Quote == "\""
Backslash == "\\"
Nul == "NUL"      \* the zero byte of a hole in the file

\* serde_json's escapes of the characters of the model: <<>> for a character
\* written as it is.
Escape(c) ==
    CASE c = Quote -> <<Backslash, Quote>>
      [] c = Backslash -> <<Backslash, Backslash>>
      [] c = "\n" -> <<Backslash, "n">>
      [] c = "\r" -> <<Backslash, "r">>
      [] c = "\t" -> <<Backslash, "t">>
      [] OTHER -> <<>>

\* format_escaped_str_contents: one write per stretch of plain characters and
\* one per escape.
RECURSIVE EscapedFrom(_, _, _, _)
EscapedFrom(t, i, run, acc) ==
    IF i > Len(t)
    THEN IF run = <<>> THEN acc ELSE Append(acc, run)
    ELSE IF Escape(t[i]) = <<>>
         THEN EscapedFrom(t, i + 1, Append(run, t[i]), acc)
         ELSE EscapedFrom(t, i + 1, <<>>,
                          Append(IF run = <<>> THEN acc ELSE Append(acc, run),
                                 Escape(t[i])))

\* format_escaped_str: the writes of one JSON string.
StringWrites(t) == << <<Quote>> >> \o EscapedFrom(t, 1, <<>>, <<>>) \o << <<Quote>> >>

Indent == <<" ", " ">>

\* The writes of the entries of the map, in the given order, at depth 2.
RECURSIVE EntryWrites(_, _, _)
EntryWrites(store, order, first) ==
    IF order = <<>> THEN <<>>
    ELSE << (IF first THEN <<"\n">> ELSE <<",", "\n">>), Indent, Indent >>
         \o StringWrites(Head(order))
         \o << <<":", " ">> >>
         \o StringWrites(store[Head(order)])
         \o EntryWrites(store, Tail(order), FALSE)

\* serde_json::to_writer_pretty(file, self): the write_all calls of the
\* pretty printer, one after the other, for { "commands": { ... } } with the
\* map iterated in the given order.
to_writer_pretty(store, order) ==
    << <<"{">>, <<"\n">>, Indent >>
    \o StringWrites(<<"c", "o", "m", "m", "a", "n", "d", "s">>)
    \o << <<":", " ">>, <<"{">> >>
    \o EntryWrites(store, order, TRUE)
    \o (IF order = <<>> THEN << <<"}">> >> ELSE << <<"\n">>, Indent, <<"}">> >>)
    \o << <<"\n">>, <<"}">> >>

\* write(2) of chunk at offset off: a hole is filled with zero bytes, what
\* lies beyond the chunk stays.
WriteAt(text, off, chunk) ==
    LET n == Len(text)
        before == [i \in 1..off |-> IF i <= n THEN text[i] ELSE Nul]
    IN  before \o chunk \o SubSeq(text, off + Len(chunk) + 1, n)

\* The JSON reader.  A result is [ok, next, val]: next the position after
\* what was read.
Failed == [ok |-> FALSE, next |-> 0, val |-> <<>>]

At(s, i) == IF i >= 1 /\ i <= Len(s) THEN s[i] ELSE "EOF"

RECURSIVE SkipWs(_, _)
SkipWs(s, i) ==
    IF At(s, i) \in {" ", "\n", "\t", "\r"} THEN SkipWs(s, i + 1) ELSE i

Unescape(c) ==
    CASE c = "n" -> "\n" [] c = "r" -> "\r" [] c = "t" -> "\t" [] OTHER -> c

\* A string, s[i-1] being its opening quote.
RECURSIVE StringFrom(_, _, _)
StringFrom(s, i, acc) ==
    LET c == At(s, i)
    IN  IF c = "EOF" THEN Failed
        ELSE IF c = Quote THEN [ok |-> TRUE, next |-> i + 1, val |-> acc]
        ELSE IF c = Backslash
             THEN IF At(s, i + 1) \in {Quote, Backslash, "/", "n", "r", "t"}
                  THEN StringFrom(s, i + 2, Append(acc, Unescape(At(s, i + 1))))
                  ELSE Failed
        ELSE IF c \in {"\n", "\r", "\t", Nul} THEN Failed
        ELSE StringFrom(s, i + 1, Append(acc, c))

ParseString(s, i) == IF At(s, i) = Quote THEN StringFrom(s, i + 1, <<>>) ELSE Failed

\* The members of a HashMap<String, String>, s[i] being the start of a key;
\* a key read twice keeps its last value.
RECURSIVE MapMembers(_, _, _)
MapMembers(s, i, acc) ==
    LET k == ParseString(s, i)
        c == SkipWs(s, k.next)
        v == ParseString(s, SkipWs(s, c + 1))
        e == SkipWs(s, v.next)
    IN  IF ~k.ok \/ At(s, c) # ":" THEN Failed
        ELSE IF ~v.ok THEN Failed
        ELSE IF At(s, e) = ","
             THEN MapMembers(s, SkipWs(s, e + 1), insert(acc, k.val, v.val))
        ELSE IF At(s, e) = "}"
             THEN [ok |-> TRUE, next |-> e + 1, val |-> insert(acc, k.val, v.val)]
        ELSE Failed

ParseStringMap(s, i) ==
    IF At(s, i) # "{" THEN Failed
    ELSE IF At(s, SkipWs(s, i + 1)) = "}"
         THEN [ok |-> TRUE, next |-> SkipWs(s, i + 1) + 1, val |-> new]
         ELSE MapMembers(s, SkipWs(s, i + 1), new)

\* A value that is ignored (the value of an unknown field): a string or an
\* object; the texts of the model hold no other kind.
RECURSIVE SkipValue(_, _)
RECURSIVE SkipMembers(_, _)
SkipMembers(s, i) ==
    LET k == ParseString(s, i)
        c == SkipWs(s, k.next)
        v == SkipValue(s, SkipWs(s, c + 1))
        e == SkipWs(s, v.next)
    IN  IF ~k.ok \/ At(s, c) # ":" THEN Failed
        ELSE IF ~v.ok THEN Failed
        ELSE IF At(s, e) = "," THEN SkipMembers(s, SkipWs(s, e + 1))
        ELSE IF At(s, e) = "}" THEN [ok |-> TRUE, next |-> e + 1, val |-> <<>>]
        ELSE Failed

SkipValue(s, i) ==
    IF At(s, i) = Quote THEN ParseString(s, i)
    ELSE IF At(s, i) = "{"
         THEN IF At(s, SkipWs(s, i + 1)) = "}"
              THEN [ok |-> TRUE, next |-> SkipWs(s, i + 1) + 1, val |-> <<>>]
              ELSE SkipMembers(s, SkipWs(s, i + 1))
    ELSE Failed

\* The fields of CommandStore, s[i] being the start of a field name: the
\* field commands is read as a map (twice is an error), any other is ignored.
\* seen is <<>> or <<the map read>>.
RECURSIVE StructMembers(_, _, _)
StructMembers(s, i, seen) ==
    LET k == ParseString(s, i)
        c == SkipWs(s, k.next)
        isCommands == k.ok /\ k.val = <<"c", "o", "m", "m", "a", "n", "d", "s">>
        v == IF isCommands THEN ParseStringMap(s, SkipWs(s, c + 1))
             ELSE SkipValue(s, SkipWs(s, c + 1))
        e == SkipWs(s, v.next)
        now == IF isCommands THEN <<v.val>> ELSE seen
    IN  IF ~k.ok \/ At(s, c) # ":" THEN Failed
        ELSE IF isCommands /\ seen # <<>> THEN Failed
        ELSE IF ~v.ok THEN Failed
        ELSE IF At(s, e) = "," THEN StructMembers(s, SkipWs(s, e + 1), now)
        ELSE IF At(s, e) = "}" /\ now # <<>>
             THEN [ok |-> TRUE, next |-> e + 1, val |-> now[1]]
        ELSE Failed

\* serde_json::from_reader::<CommandStore> on the bytes read up to the end of
\* the file: one object with the field commands, blanks around it.
from_reader(bytes) ==
    LET i == SkipWs(bytes, 1)
        r == IF At(bytes, i) # "{" THEN Failed
             ELSE IF At(bytes, SkipWs(bytes, i + 1)) = "}" THEN Failed
             ELSE StructMembers(bytes, SkipWs(bytes, i + 1), <<>>)
    IN  IF r.ok /\ SkipWs(bytes, r.next) = Len(bytes) + 1
        THEN [ok |-> TRUE, store |-> r.val]
        ELSE [ok |-> FALSE, store |-> new]

----------------------------------------------------------------------------
(* search_logic                                                            *)

\* KeywordMatches looking at the command text only.
KeywordMatchesCommandOnly(keyword, cmd, desc) ==
    contains(to_lowercase(cmd), to_lowercase(keyword))

\* The closure of the filter: the keyword is in the lowercased command text
\* or in the lowercased description.
KeywordMatches(keyword, cmd, desc) ==
    \/ contains(to_lowercase(cmd), to_lowercase(keyword))
    \/ contains(to_lowercase(desc), to_lowercase(keyword))

\* search_logic(pattern, store), the map being iterated in order iter: the
\* commands all of whose keywords are matched, in iteration order.
search_logic(pattern, store, iter) ==
    LET keywords == split_whitespace(pattern)
        matched_keywords(cmd) ==
            Len(SelectSeq(keywords, LAMBDA kw : KeywordMatches(kw, cmd, store[cmd])))
    IN  SelectSeq(iter, LAMBDA cmd : matched_keywords(cmd) = Len(keywords))

----------------------------------------------------------------------------
(* Inputs of the invocations: command-line arguments, lines of standard    *)
(* input, what the editor leaves in the temporary file, exit statuses.     *)

\* Option<String>: <<>> is None, <<s>> is Some(s).
None == <<>>
Some(s) == <<s>>

\* New { command }: absent, empty, or the command text " a".
CommandArgs == {None, Some(<<>>), Some(<<" ", "a">>)}

\* New { description }
DescriptionArgs == {None, Some(<<>>), Some(<<"C">>)}

\* The line read at "Enter command: ": none (end of file), or " a ".
CommandLines == {<<>>, <<" ", "a", " ", "\n">>}

\* The line read at "Enter description: ": none (end of file), or " C".
DescriptionLines == {<<>>, <<" ", "C", "\n">>}

\* Patterns of grep, remove and run: "", "c", "A c", "ca".
Patterns ==
    {<<>>, <<"c">>, <<"A", " ", "c">>, <<"c", "a">>}

\* The line typed at "Enter a number": "1", " 2 ", "0", "9", "x", "-1".
SelectionLines ==
    { <<"1", "\n">>, <<" ", "2", " ", "\n">>, <<"0", "\n">>,
      <<"9", "\n">>, <<"x", "\n">>, <<"-", "1", "\n">> }

\* Exit statuses of a child process (the editor, the shell).
ExitStatuses == {0, 1}

\* What the editor may leave in the temporary file: the file as it was, an
\* empty file, or the lines " a :::", "ab", "a:::C".
EditorWrites(temp) ==
    { temp,
      <<>>,
      <<" ", "a", " ", ":", ":", ":", "\n", "a", "b", "\n",
        "a", ":", ":", ":", "C", "\n">> }

\* Argument vectors (after the program name) of main: "c", "A" "c", "x",
\* " ", and "ls", which is a subcommand.
ArgVectors ==
    { << <<"c">> >>, << <<"A">>, <<"c">> >>, << <<"x">> >>, << <<" ">> >>,
      << <<"l", "s">> >> }

\* main's list of names: the subcommands of Cli, then help, --help, -h.
commands ==
    { <<"n", "e", "w">>, <<"a", "d", "d">>, <<"l", "i", "s", "t">>, <<"l", "s">>,
      <<"g", "r", "e", "p">>, <<"f", "i", "n", "d">>, <<"s", "e", "a", "r", "c", "h">>,
      <<"r", "e", "m", "o", "v", "e">>, <<"r", "m">>, <<"d", "e", "l", "e", "t", "e">>,
      <<"e", "d", "i", "t">>, <<"r", "u", "n">>, <<"e", "x", "e", "c", "u", "t", "e">>,
      <<"h", "e", "l", "p">>, <<"-", "-", "h", "e", "l", "p">>, <<"-", "h">> }

----------------------------------------------------------------------------
(* State.                                                                  *)

\* The invocations that may run at the same time.
Procs == {1, 2}

VARIABLES
    file,      \* commands.json: [exists, text], text its bytes
    proc,      \* per process: where it stands, its locals, what it did
    versions,  \* the stores given to save since no process last ran, and the
               \* store the file held then
    started,   \* invocations started so far, counted when they may overlap
    history    \* whether a process keeps, for the properties of one
               \* invocation, the inputs and results it uses no more

vars == <<file, proc, versions, started, history>>

\* A process that has not started.
Idle ==
    [ pc          |-> "idle",      \* "open", "read", "loaded", "prompt_command",
                                   \* "prompt_description", "select", "editor",
                                   \* "child", "save_create", "save_write", "done"
      op          |-> "none",      \* the handler, once it runs
      outcome     |-> "running",   \* "ok", "err", "panic", "usage" at its end
      bytes       |-> <<>>,        \* load: the bytes read so far
      load_ok     |-> TRUE,        \* what load returned: Ok or Err,
      loaded      |-> new,         \* and the store
      args        |-> <<>>,        \* main's arguments (fallback)
      pattern     |-> <<>>,
      iter        |-> <<>>,        \* the order in which the map hands out its keys
      matches     |-> <<>>,        \* what search_logic returned
      line        |-> <<>>,        \* the line read at the selection prompt, or
                                   \* at "Enter command: "
      answered    |-> FALSE,       \* whether that line was read
      command     |-> <<>>,        \* new: the command text and description used
      description |-> <<>>,
      description_arg |-> None,    \* new: the description argument
      temp        |-> <<>>,        \* edit: the temporary file as written
      edited      |-> <<>>,        \* edit: the temporary file as the editor left it
      readable    |-> TRUE,        \* edit: whether it could be read back
      launched    |-> FALSE,       \* whether the child process was spawned
      exited      |-> FALSE,       \* whether it has ended,
      status      |-> 0,           \* and its exit status
      spawned     |-> <<>>,        \* run: the command text given to the shell
      saved       |-> FALSE,       \* whether save was called,
      stored      |-> new,         \* the store it was called on,
      pending     |-> <<>>,        \* the writes still to do
      offset      |-> 0 ]          \* and the offset of the next write

\* The store a file holds when nothing is writing it.
Content(f) ==
    IF ~f.exists THEN [ok |-> TRUE, store |-> new] ELSE from_reader(f.text)

Init ==
    /\ file = [exists |-> FALSE, text |-> <<>>]
    /\ proc = [p \in Procs |-> Idle]
    /\ versions = {new}
    /\ started = 0
    /\ history = TRUE

\* What a process at r.pc still uses of r: the locals its next steps read.
Live(r) ==
    CASE r.pc \in {"open", "read"} ->
           [Idle EXCEPT !.pc = r.pc, !.bytes = r.bytes]
      [] r.pc = "loaded" ->
           [Idle EXCEPT !.pc = r.pc, !.load_ok = r.load_ok, !.loaded = r.loaded]
      [] r.pc = "prompt_command" ->
           [Idle EXCEPT !.pc = r.pc, !.loaded = r.loaded,
                        !.description_arg = r.description_arg]
      [] r.pc = "prompt_description" ->
           [Idle EXCEPT !.pc = r.pc, !.loaded = r.loaded, !.command = r.command]
      [] r.pc = "select" ->
           [Idle EXCEPT !.pc = r.pc, !.op = r.op, !.loaded = r.loaded,
                        !.iter = r.iter, !.matches = r.matches]
      [] r.pc = "editor" ->
           [Idle EXCEPT !.pc = r.pc, !.temp = r.temp]
      [] r.pc \in {"save_create", "save_write"} ->
           [Idle EXCEPT !.pc = r.pc, !.pending = r.pending, !.offset = r.offset]
      [] r.pc = "done" ->
           [Idle EXCEPT !.pc = r.pc, !.outcome = r.outcome]
      [] OTHER -> [Idle EXCEPT !.pc = r.pc]

\* Process p goes on as r.
Becomes(p, r) ==
    /\ proc' = [proc EXCEPT ![p] = IF history THEN r ELSE Live(r)]
    /\ UNCHANGED history

\* The invocation ends without touching the file.
Finish(p, r, outcome) ==
    /\ Becomes(p, [r EXCEPT !.outcome = outcome, !.pc = "done"])
    /\ UNCHANGED <<file, versions, started>>

\* The invocation waits: for a line of standard input, for a child.
Wait(p, r, at) ==
    /\ Becomes(p, [r EXCEPT !.pc = at])
    /\ UNCHANGED <<file, versions, started>>

\* The handler calls store.save(&path): the writes are fixed by the order in
\* which the serializer iterates the map, one of orders.
CallSave(p, r, store, orders) ==
    /\ \E order \in orders :
         Becomes(p, [r EXCEPT !.saved = TRUE, !.stored = store,
                              !.pending = to_writer_pretty(store, order),
                              !.pc = "save_create"])
    /\ versions' = versions \cup {store}
    /\ UNCHANGED <<file, started>>

----------------------------------------------------------------------------
(* CommandStore::load, one step per system call.                           *)

\* The process starts and load tests path.exists(): without the file it
\* returns the empty store.
Begin(p) ==
    /\ proc[p].pc = "idle"
    /\ Becomes(p, [Idle EXCEPT !.pc = IF file.exists THEN "open" ELSE "loaded"])
    /\ UNCHANGED <<file, versions>>

\* File::open(path)
LoadOpen(p) ==
    /\ proc[p].pc = "open"
    /\ IF file.exists THEN Wait(p, proc[p], "read")
       ELSE Finish(p, [proc[p] EXCEPT !.load_ok = FALSE], "err")

\* from_reader reads the next byte of the file.
LoadRead(p) ==
    /\ proc[p].pc = "read"
    /\ Len(proc[p].bytes) < Len(file.text)
    /\ Becomes(p, [proc[p] EXCEPT !.bytes = Append(@, file.text[Len(@) + 1])])
    /\ UNCHANGED <<file, versions, started>>

\* from_reader reads at the end of the file: load returns what the bytes
\* read spell.
LoadEof(p) ==
    /\ proc[p].pc = "read"
    /\ Len(proc[p].bytes) >= Len(file.text)
    /\ LET r == from_reader(proc[p].bytes)
       IN  Becomes(p, [proc[p] EXCEPT !.load_ok = r.ok, !.loaded = r.store,
                                       !.bytes = <<>>, !.pc = "loaded"])
    /\ UNCHANGED <<file, versions, started>>

----------------------------------------------------------------------------
(* CommandStore::save, one step per system call.                           *)

\* File::create(path): the file exists and is empty.
SaveCreate(p) ==
    /\ proc[p].pc = "save_create"
    /\ file' = [exists |-> TRUE, text |-> <<>>]
    /\ Becomes(p, [proc[p] EXCEPT !.offset = 0, !.pc = "save_write"])
    /\ UNCHANGED <<versions, started>>

\* to_writer_pretty does its next write.
SaveWrite(p) ==
    /\ proc[p].pc = "save_write"
    /\ proc[p].pending # <<>>
    /\ file' = [file EXCEPT !.text = WriteAt(@, proc[p].offset, Head(proc[p].pending))]
    /\ Becomes(p, [proc[p] EXCEPT !.offset = @ + Len(Head(proc[p].pending)),
                                   !.pending = Tail(@)])
    /\ UNCHANGED <<versions, started>>

\* save returns Ok(()) and so does the handler.
SaveReturn(p) ==
    /\ proc[p].pc = "save_write"
    /\ proc[p].pending = <<>>
    /\ Becomes(p, [proc[p] EXCEPT !.outcome = "ok", !.pc = "done"])
    /\ UNCHANGED <<file, versions, started>>

\* The process ends.
Exit(p) ==
    /\ proc[p].pc = "done"
    /\ Becomes(p, Idle)
    /\ versions' = IF \A q \in Procs \ {p} : proc[q].pc = "idle"
                   THEN IF Content(file).ok THEN {Content(file).store} ELSE {}
                   ELSE versions
    /\ UNCHANGED <<file, started>>

----------------------------------------------------------------------------
(* The handlers, one step from a wait to the next.                         *)

\* new_command's check of the command text.
CommandRejected(command) == command = <<>>

\* new_command, the description known: the insertion and the save.
NewInsert(p, r, description) ==
    LET store == insert(r.loaded, r.command, description)
    IN  CallSave(p, [r EXCEPT !.description = description], store, IterOrders(store))

\* new_command, the command text known: is_empty, then the description.
NewDescription(p, r) ==
    IF CommandRejected(r.command) THEN Finish(p, r, "err")
    ELSE IF r.description_arg = None THEN Wait(p, r, "prompt_description")
    ELSE NewInsert(p, r, r.description_arg[1])

\* new_command(command, description), up to its first prompt.
NewCommand(p) ==
    /\ proc[p].pc = "loaded"
    /\ \E command \in CommandArgs, description \in DescriptionArgs :
         LET r == [proc[p] EXCEPT !.op = "new", !.description_arg = description]
         IN  IF ~r.load_ok THEN Finish(p, r, "err")
             ELSE IF command = None THEN Wait(p, r, "prompt_command")
             ELSE NewDescription(p, [r EXCEPT !.command = command[1]])

\* The line asked by "Enter command: " is read.
NewReadCommand(p) ==
    /\ proc[p].pc = "prompt_command"
    /\ \E line \in CommandLines :
         NewDescription(p, [proc[p] EXCEPT !.line = line, !.answered = TRUE,
                                           !.command = trim(line)])

\* The line asked by "Enter description: " is read.
NewReadDescription(p) ==
    /\ proc[p].pc = "prompt_description"
    /\ \E line \in DescriptionLines : NewInsert(p, proc[p], trim(line))

\* list_commands()
ListCommands(p) ==
    /\ proc[p].pc = "loaded"
    /\ LET r == [proc[p] EXCEPT !.op = "list"]
       IN  Finish(p, r, IF r.load_ok THEN "ok" ELSE "err")

\* search_commands(pattern)
SearchCommands(p) ==
    /\ proc[p].pc = "loaded"
    /\ \E pattern \in Patterns :
         LET r == [proc[p] EXCEPT !.op = "search", !.pattern = pattern]
         IN  IF ~r.load_ok THEN Finish(p, r, "err")
             ELSE \E iter \in IterOrders(r.loaded) :
                    Finish(p, [r EXCEPT !.iter = iter,
                                        !.matches = search_logic(pattern, r.loaded, iter)],
                           "ok")

\* delete_command and execute_command up to "Enter a number": the search and
\* the list of matches.
Listed(p, op) ==
    \E pattern \in Patterns :
        LET r == [proc[p] EXCEPT !.op = op, !.pattern = pattern]
        IN  IF ~r.load_ok THEN Finish(p, r, "err")
            ELSE \E iter \in IterOrders(r.loaded) :
                   LET matches == search_logic(pattern, r.loaded, iter)
                       r1 == [r EXCEPT !.iter = iter, !.matches = matches]
                   IN  IF matches = <<>> THEN Finish(p, r1, "ok")
                       ELSE Wait(p, r1, "select")

\* The selection of delete_command and execute_command:
\*     if let Ok(choice) = line.trim().parse::<usize>() {
\*         if choice <= matching_commands.len() { &matching_commands[choice - 1] ...
\* With choice = 0 a debug build panics at `choice - 1`; a release build wraps
\* it to usize::MAX and panics at the index.  Either way the process panics.
Selection(line, n) ==
    LET choice == parse_usize(trim(line))
    IN  IF choice < 0 THEN [kind |-> "none", index |-> 0]
        ELSE IF choice <= n
             THEN IF choice = 0 THEN [kind |-> "panic", index |-> 0]
                  ELSE [kind |-> "chosen", index |-> choice]
             ELSE [kind |-> "none", index |-> 0]

\* Selected taking the first match whatever the choice.
SelectedFirst(matches, choice) == matches[1]

\* matching_commands[choice - 1], sequences here counting from 1.
Selected(matches, choice) == matches[choice]

\* delete_command(pattern), up to its prompt.
DeleteCommand(p) == proc[p].pc = "loaded" /\ Listed(p, "delete")

\* The line asked by delete_command is read: the removal from the store
\* loaded before the prompt, and the save.
DeleteSelect(p) ==
    /\ proc[p].pc = "select"
    /\ proc[p].op = "delete"
    /\ \E line \in SelectionLines :
         LET r   == [proc[p] EXCEPT !.line = line, !.answered = TRUE]
             sel == Selection(line, Len(r.matches))
         IN  IF sel.kind = "panic" THEN Finish(p, r, "panic")
             ELSE IF sel.kind = "none" THEN Finish(p, r, "ok")
             ELSE LET cmd_to_delete == Selected(r.matches, sel.index)
                  IN  CallSave(p, r, remove(r.loaded, cmd_to_delete),
                               {SelectSeq(r.iter, LAMBDA c : c # cmd_to_delete)})

\* execute_command(pattern), up to its prompt.
ExecuteCommand(p) == proc[p].pc = "loaded" /\ Listed(p, "run")

\* The line asked by execute_command is read: `sh -c` is spawned with the
\* selected command text; `.status()...?` fails when it cannot be.
ExecuteSelect(p) ==
    /\ proc[p].pc = "select"
    /\ proc[p].op = "run"
    /\ \E line \in SelectionLines :
         LET r   == [proc[p] EXCEPT !.line = line, !.answered = TRUE]
             sel == Selection(line, Len(r.matches))
         IN  IF sel.kind = "panic" THEN Finish(p, r, "panic")
             ELSE IF sel.kind = "none" THEN Finish(p, r, "ok")
             ELSE \E launched \in BOOLEAN :
                    IF ~launched THEN Finish(p, r, "err")
                    ELSE Wait(p, [r EXCEPT !.launched = TRUE,
                                           !.spawned = <<Selected(r.matches, sel.index)>>],
                              "child")

\* The shell ends: the ExitStatus that status() returns is dropped and
\* Ok(()) follows.
ExecuteChildExit(p) ==
    /\ proc[p].pc = "child"
    /\ \E status \in ExitStatuses :
         Finish(p, [proc[p] EXCEPT !.exited = TRUE, !.status = status], "ok")

\* The temporary file of edit_commands: one line "cmd:::desc" per entry, in
\* iteration order.
RECURSIVE TempText(_, _)
TempText(store, order) ==
    IF order = <<>> THEN <<>>
    ELSE Head(order) \o Delim \o store[Head(order)] \o <<"\n">>
         \o TempText(store, Tail(order))

\* ParseLine without the trimming of the two parts.
ParseLineUntrimmed(new_commands, l) ==
    LET parts == split_once(l)
    IN  IF parts = <<>> THEN new_commands
        ELSE insert(new_commands, parts[1], parts[2])

\* What edit_commands does with one line: a line with the delimiter inserts
\* its two trimmed parts, any other line is skipped.
ParseLine(new_commands, l) ==
    LET parts == split_once(l)
    IN  IF parts = <<>> THEN new_commands
        ELSE insert(new_commands, trim(parts[1]), trim(parts[2]))

\* The loop over content.lines() that builds new_commands.
RECURSIVE ParseLines(_, _)
ParseLines(ls, new_commands) ==
    IF ls = <<>> THEN new_commands
    ELSE ParseLines(Tail(ls), ParseLine(new_commands, Head(ls)))

ParseEdited(content) == ParseLines(lines(content), new)

\* ExitedInError taking every exit status for a success.
ExitedInErrorNever(status) == FALSE

\* !status.success()
ExitedInError(status) == status # 0

\* edit_commands(), up to the start of the editor: the temporary file is
\* written and the editor spawned; `.status()?` fails when it cannot be.
EditCommands(p) ==
    /\ proc[p].pc = "loaded"
    /\ LET r == [proc[p] EXCEPT !.op = "edit"]
       IN  IF ~r.load_ok THEN Finish(p, r, "err")
           ELSE \E iter \in IterOrders(r.loaded), launched \in BOOLEAN :
                  LET temp == TempText(r.loaded, iter)
                      r1   == [r EXCEPT !.iter = iter, !.temp = temp, !.edited = temp,
                                        !.launched = launched]
                  IN  IF ~launched THEN Finish(p, r1, "err")
                      ELSE Wait(p, r1, "editor")

\* The editor ends: on a status of success the temporary file is read back
\* (`?` on File::open and read_to_string), its lines parsed and the store
\* they make saved.
EditEditorExit(p) ==
    /\ proc[p].pc = "editor"
    /\ \E status \in ExitStatuses, edited \in EditorWrites(proc[p].temp),
          readable \in BOOLEAN :
         LET r == [proc[p] EXCEPT !.exited = TRUE, !.status = status,
                                  !.edited = edited, !.readable = readable]
         IN  IF ExitedInError(status) THEN Finish(p, r, "err")
             ELSE IF ~readable THEN Finish(p, r, "err")
             ELSE CallSave(p, r, ParseEdited(edited), IterOrders(ParseEdited(edited)))

\* Cli::parse() on arguments whose first is neither a subcommand nor a help
\* flag: clap prints its error and exits with status 2.
CliParse(args) == IF args[1] \in commands THEN "dispatch" ELSE "usage"

\* main, for arguments whose first is not in its list of names: the search
\* over the joined arguments and, when nothing matches, Cli::parse().
MainFallback(p) ==
    /\ proc[p].pc = "loaded"
    /\ \E args \in ArgVectors :
         /\ Len(args) >= 1
         /\ args[1] \notin commands
         /\ LET r == [proc[p] EXCEPT !.op = "fallback", !.args = args,
                                     !.pattern = join(args)]
            IN  IF ~r.load_ok THEN Finish(p, r, "err")
                ELSE \E iter \in IterOrders(r.loaded) :
                       LET matches == search_logic(join(args), r.loaded, iter)
                           r1 == [r EXCEPT !.iter = iter, !.matches = matches]
                       IN  IF matches # <<>> THEN Finish(p, r1, "ok")
                           ELSE Finish(p, r1, CliParse(args))

----------------------------------------------------------------------------

\* A step of process p after its start.
Step(p) ==
    \/ LoadOpen(p)
    \/ LoadRead(p)
    \/ LoadEof(p)
    \/ NewCommand(p)
    \/ NewReadCommand(p)
    \/ NewReadDescription(p)
    \/ ListCommands(p)
    \/ SearchCommands(p)
    \/ DeleteCommand(p)
    \/ DeleteSelect(p)
    \/ ExecuteCommand(p)
    \/ ExecuteSelect(p)
    \/ ExecuteChildExit(p)
    \/ EditCommands(p)
    \/ EditEditorExit(p)
    \/ MainFallback(p)
    \/ SaveCreate(p)
    \/ SaveWrite(p)
    \/ SaveReturn(p)
    \/ Exit(p)

\* An invocation starts when no other runs.
Start(p) ==
    /\ \A q \in Procs : proc[q].pc = "idle"
    /\ Begin(p)
    /\ UNCHANGED started

\* An invocation starts, whatever the others do; it is given the first
\* process that is free.
StartBeside(p) ==
    /\ started < MaxInvocations
    /\ \A q \in Procs : q < p => proc[q].pc # "idle"
    /\ Begin(p)
    /\ started' = started + 1

\* One invocation at a time.
Next == Start(1) \/ Step(1)

Spec == Init /\ [][Next]_vars

\* Invocations that overlap.
NextConcurrent == \E p \in Procs : StartBeside(p) \/ Step(p)

\* The overlapping invocations start where no file exists yet.
InitConcurrent ==
    /\ file = [exists |-> FALSE, text |-> <<>>]
    /\ proc = [p \in Procs |-> Idle]
    /\ versions = {Content(file).store}
    /\ started = 0
    /\ history = FALSE

SpecConcurrent == InitConcurrent /\ [][NextConcurrent]_vars

----------------------------------------------------------------------------
(* Vocabulary of the properties, stated without the operators above.       *)

\* Two characters that are the same letter up to case.
SameLetter(x, y) ==
    \/ x = y
    \/ {x, y} \in {{"a", "A"}, {"b", "B"}, {"c", "C"}}

\* t occurs in text at some offset, case ignored.
OccursIn(t, text) ==
    \E off \in 0..(Len(text) - Len(t)) :
        \A i \in 1..Len(t) : SameLetter(text[off + i], t[i])

Blank(c) == c \in {" ", "\n", "\t", "\r"}

\* The whitespace-delimited keywords of p: its maximal blank-free stretches.
Keywords(p) ==
    { SubSeq(p, i, j) : <<i, j>> \in
        { ij \in (1..Len(p)) \X (1..Len(p)) :
            /\ ij[1] <= ij[2]
            /\ \A x \in ij[1]..ij[2] : ~Blank(p[x])
            /\ (ij[1] = 1 \/ Blank(p[ij[1] - 1]))
            /\ (ij[2] = Len(p) \/ Blank(p[ij[2] + 1])) } }

\* The entry has every keyword of p in its command text or its description.
EntryMatches(p, cmd, desc) ==
    \A t \in Keywords(p) : OccursIn(t, cmd) \/ OccursIn(t, desc)

\* The invocation that the properties of one invocation are about.
inv == proc[1]

\* The invocation has run the search.
Searched == inv.load_ok /\ inv.op \in {"search", "delete", "run", "fallback"}

\* The invocation has ended.
Ended == inv.pc = "done"

\* The file holds a complete store, and which.
FileOk == Content(file).ok
FileStore == Content(file).store

----------------------------------------------------------------------------
(* The properties.                                                         *)

\* C1: search_logic returns exactly the keys of the store whose entry has
\* every whitespace-delimited keyword of the pattern, case ignored, in its
\* command text or in its description, and returns each of them once.
C1_SearchMatchesAllKeywords ==
    Searched =>
        /\ { inv.matches[i] : i \in 1..Len(inv.matches) }
             = { k \in DOMAIN inv.loaded : EntryMatches(inv.pattern, k, inv.loaded[k]) }
        /\ \A i, j \in 1..Len(inv.matches) : inv.matches[i] = inv.matches[j] => i = j

\* A search with two keywords over two entries that returns one of them, one
\* keyword being found only in its description.
C1_Witness ==
    /\ Ended /\ inv.op = "search"
    /\ Cardinality(Keywords(inv.pattern)) = 2
    /\ Cardinality(DOMAIN inv.loaded) = 2
    /\ Len(inv.matches) = 1
    /\ \E t \in Keywords(inv.pattern) :
          /\ ~OccursIn(t, inv.matches[1])
          /\ OccursIn(t, inv.loaded[inv.matches[1]])

\* C2: over a non-empty store a pattern without keywords (empty, or blanks
\* only) makes search, delete and run find no match.
C2_EmptyPatternMatchesNothing ==
    ( /\ Searched
      /\ inv.op \in {"search", "delete", "run"}
      /\ DOMAIN inv.loaded # {}
      /\ Keywords(inv.pattern) = {} )
    => inv.matches = <<>>

\* The decimal numeral of a natural number.
Digit == <<"0", "1", "2", "3", "4", "5", "6", "7", "8", "9">>

RECURSIVE Numeral(_)
Numeral(k) ==
    IF k < 10 THEN <<Digit[k + 1]>> ELSE Numeral(k \div 10) \o <<Digit[(k % 10) + 1]>>

\* The text, blanks around it aside, is the numeral of k (a "+" may precede it).
Denotes(text, k) ==
    \E i \in 1..(Len(text) + 1), j \in 0..Len(text) :
        /\ SubSeq(text, i, j) \in {Numeral(k), <<"+">> \o Numeral(k)}
        /\ \A x \in 1..(i - 1) : Blank(text[x])
        /\ \A x \in (j + 1)..Len(text) : Blank(text[x])

\* The line read at the prompt is an integer in 1..number of matches.
ValidSelection == \E k \in 1..Len(inv.matches) : Denotes(inv.line, k)

\* The store s without the key k.
Without(s, k) == [x \in (DOMAIN s) \ {k} |-> s[x]]

\* The invocation left the persisted store as it found it.
Untouched == ~inv.saved /\ FileOk /\ FileStore = inv.loaded

\* C3: in delete and run, when there are matches and the line read is not an
\* integer in 1..number of matches, the invocation ends normally, nothing is
\* removed, the file is not rewritten and no shell is spawned.
C3_InvalidSelectionIsSilent ==
    ( /\ inv.op \in {"delete", "run"}
      /\ inv.matches # <<>>
      /\ inv.answered
      /\ ~ValidSelection )
    => /\ Ended
       /\ inv.outcome = "ok"
       /\ Untouched
       /\ inv.spawned = <<>>

\* C4: in delete, when the line read is an integer k in 1..number of matches,
\* the entry listed at position k is removed and the store saved: the saved
\* store is the loaded one without that key.
C4_DeleteRemovesTheSelected ==
    ( /\ Ended
      /\ inv.op = "delete"
      /\ inv.matches # <<>>
      /\ ValidSelection )
    => \A k \in 1..Len(inv.matches) :
          Denotes(inv.line, k) =>
            /\ inv.outcome = "ok"
            /\ inv.saved
            /\ FileOk
            /\ FileStore = Without(inv.loaded, inv.matches[k])

\* A delete that listed two matches and was answered 2.
C4_Witness ==
    /\ Ended /\ inv.op = "delete"
    /\ Len(inv.matches) = 2
    /\ Denotes(inv.line, 2)
    /\ DOMAIN FileStore = {inv.matches[1]}

\* C5: create with a non-empty command text leaves exactly one entry for it,
\* carrying the description given, every other entry unchanged; create with
\* an empty command text fails and leaves the persisted store as it was.
C5_CreateInsertsOrOverwrites ==
    (Ended /\ inv.op = "new") =>
        IF inv.command = <<>>
        THEN inv.outcome = "err" /\ Untouched
        ELSE /\ inv.outcome = "ok"
             /\ FileOk
             /\ DOMAIN FileStore = (DOMAIN inv.loaded) \cup {inv.command}
             /\ FileStore[inv.command] = inv.description
             /\ \A x \in (DOMAIN inv.loaded) \ {inv.command} :
                   FileStore[x] = inv.loaded[x]

\* A create, of a command text typed at the prompt, that the store already
\* held with another description, beside a second entry.
C5_Witness ==
    /\ Ended /\ inv.op = "new"
    /\ inv.answered /\ inv.command = trim(inv.line)
    /\ inv.command \in DOMAIN inv.loaded
    /\ inv.loaded[inv.command] # inv.description
    /\ Cardinality(DOMAIN inv.loaded) = 2
    /\ FileStore[inv.command] = inv.description

\* C6: in run, after a valid selection the shell is spawned with the
\* selected command text, and a non-zero exit status of the child makes the
\* invocation end in an error.
C6_NonZeroExitIsAnError ==
    ( /\ Ended
      /\ inv.op = "run"
      /\ inv.matches # <<>>
      /\ ValidSelection
      /\ inv.launched )
    => /\ \E k \in 1..Len(inv.matches) :
             Denotes(inv.line, k) /\ inv.spawned = <<inv.matches[k]>>
       /\ (inv.status # 0 => inv.outcome = "err")

\* C7: in bulk edit, when the editor cannot be launched or exits with a
\* non-zero status, the invocation fails and the persisted store is as before,
\* whatever the editor left in the temporary file.
C7_FailedEditorLeavesStore ==
    ( /\ inv.op = "edit" /\ inv.load_ok
      /\ (~inv.launched \/ (inv.exited /\ inv.status # 0)) ) =>
        /\ Ended
        /\ inv.outcome = "err"
        /\ Untouched

\* An edit whose editor rewrote the temporary file into another store and
\* exited with status 1.
C7_Witness ==
    /\ Ended /\ inv.op = "edit"
    /\ inv.launched /\ inv.exited /\ inv.status = 1
    /\ inv.edited # inv.temp
    /\ ParseEdited(inv.edited) # inv.loaded
    /\ DOMAIN inv.loaded # {}

\* The load of process p has just returned.
HasLoaded(p) == proc[p].pc = "loaded"

\* C8: a load of the file by any invocation, at any point during or after a
\* save, succeeds and sees a complete store: the one the file held before
\* or one that save was given; never an empty or a partly written file.
C8_SaveIsAtomic ==
    \A p \in Procs :
        HasLoaded(p) => proc[p].load_ok /\ proc[p].loaded \in versions

\* C9: with a first argument that is no subcommand, main searches the joined
\* arguments; when nothing matches the invocation ends normally, and the
\* store is never modified.
C9_FallbackNoMatchIsNormal ==
    (Ended /\ inv.op = "fallback") =>
        /\ inv.pattern = join(inv.args)
        /\ (inv.matches = <<>> => inv.outcome = "ok")
        /\ Untouched

\* The positions at which a line of the text c starts.
LineStarts(c) == {i \in 1..Len(c) : i = 1 \/ c[i - 1] = "\n"}

\* The line of c that starts at i, without its line break.
LineAt(c, i) ==
    LET j == CHOOSE e \in (i - 1)..Len(c) :
                 /\ e = Len(c) \/ c[e + 1] = "\n"
                 /\ \A x \in i..e : c[x] # "\n"
    IN  SubSeq(c, i, j)

\* The delimiter ":::" stands at position p of the line l.
DelimAt(l, p) == p + 2 <= Len(l) /\ l[p] = ":" /\ l[p + 1] = ":" /\ l[p + 2] = ":"

HasDelim(l) == \E p \in 1..Len(l) : DelimAt(l, p)

FirstDelim(l) ==
    CHOOSE p \in 1..Len(l) : DelimAt(l, p) /\ \A q \in 1..(p - 1) : ~DelimAt(l, q)

\* The text without the blanks around it.
Stripped(t) ==
    LET solid == {x \in 1..Len(t) : ~Blank(t[x])}
    IN  IF solid = {} THEN <<>>
        ELSE SubSeq(t, CHOOSE x \in solid : \A y \in solid : x <= y,
                       CHOOSE x \in solid : \A y \in solid : x >= y)

\* The two parts of a line around its first delimiter, stripped of the
\* blanks around them when strip is set.
KeyOf(l, strip) ==
    LET part == SubSeq(l, 1, FirstDelim(l) - 1)
    IN  IF strip THEN Stripped(part) ELSE part

DescOf(l, strip) ==
    LET part == SubSeq(l, FirstDelim(l) + 3, Len(l))
    IN  IF strip THEN Stripped(part) ELSE part

\* The mapping the lines of c spell: one entry per line with a delimiter, the
\* last line of a key giving its description.
MappingOf(c, strip) ==
    LET starts == {i \in LineStarts(c) : HasDelim(LineAt(c, i))}
        keys   == {KeyOf(LineAt(c, i), strip) : i \in starts}
        last(k) == CHOOSE i \in starts :
                      /\ KeyOf(LineAt(c, i), strip) = k
                      /\ \A j \in starts : KeyOf(LineAt(c, j), strip) = k => j <= i
    IN  [k \in keys |-> DescOf(LineAt(c, last(k)), strip)]

\* The bulk edit went through: the editor ran and exited with status 0,
\* and the temporary file could be read back.
Edited ==
    /\ Ended /\ inv.op = "edit"
    /\ inv.launched /\ inv.exited /\ inv.status = 0
    /\ inv.readable

\* Text that its line in the temporary file gives back as it is: no blank
\* at either end, no line break inside.
Tidy(t) == Stripped(t) = t /\ \A x \in 1..Len(t) : t[x] # "\n"

\* A store every entry of which is read back from its own line: tidy texts,
\* and no key that holds the delimiter or ends in a colon.
ReadsBack(s) ==
    \A k \in DOMAIN s :
        /\ Tidy(k) /\ Tidy(s[k])
        /\ \A p \in 1..Len(k) : ~DelimAt(k \o <<":", ":", ":">>, p)

\* C10, as stated: after a bulk edit whose editor exits with status 0 (and
\* leaves a temporary file that can be read) the saved store is the mapping
\* of the lines of the edited file, each split at its first ":::" into
\* command text and description, and an editor that leaves the file
\* unchanged leaves the store equal to the one loaded.
C10_SavedStoreIsTheSplitLines ==
    Edited =>
        /\ inv.outcome = "ok"
        /\ FileOk
        /\ FileStore = MappingOf(inv.edited, FALSE)
        /\ (inv.edited = inv.temp => FileStore = inv.loaded)

\* C10, amended: when the temporary file can be read back, the two parts of
\* each line are stripped of the blanks around them before they enter the
\* mapping, and an unchanged file gives back the loaded store when every key
\* and description is tidy and no key holds the delimiter or ends in a colon.
C10_SavedStoreIsTheStrippedLines ==
    Edited =>
        /\ inv.outcome = "ok"
        /\ FileOk
        /\ FileStore = MappingOf(inv.edited, TRUE)
        /\ ((inv.edited = inv.temp /\ ReadsBack(inv.loaded)) => FileStore = inv.loaded)

\* A bulk edit that left a line with blanks around its parts and a line
\* without delimiter, and dropped an entry of the loaded store.
C10_Witness ==
    /\ Edited
    /\ \E i \in LineStarts(inv.edited) :
          LineAt(inv.edited, i) # <<>> /\ ~HasDelim(LineAt(inv.edited, i))
    /\ MappingOf(inv.edited, TRUE) # MappingOf(inv.edited, FALSE)
    /\ (DOMAIN inv.loaded) \ (DOMAIN FileStore) # {}
    /\ DOMAIN FileStore # {}

====
